---------------------------- MODULE Spec2Model ----------------------------
(***************************************************************************)
(* Naifuru: validation of the analysis configuration                       *)
(* (src/src/analysis_config_file.rs) and the g_key group resolver          *)
(* (src/src/analysis_config_file_parser.rs).                               *)
(*                                                                         *)
(* Strings that the code inspects character by character (paths,           *)
(* extensions) are sequences of one-character strings; strings that the    *)
(* code only compares or copies (names, axis labels) are TLA+ strings.     *)
(* Result<(), Vec<E>> is the sequence of errors, <<>> being Ok(()).        *)
(***************************************************************************)
EXTENDS Integers, Sequences, FiniteSets, TLC

VARIABLES config, fsys, pc, call, errors, conversions, result,
          args, readable, content, ran, logged, exit_code, printed, again

\* The command line, the configuration file as it reads and parses, and what
\* the driver has run, logged, returned and printed.
driver_vars == <<args, readable, content, ran, logged, exit_code, printed>>

vars == <<config, fsys, pc, call, errors, conversions, result, driver_vars, again>>

-----------------------------------------------------------------------------
(* Bounds of the model *)

MaxFiles == 3
MaxLead == 1
MaxJobs == 4
MaxConversions == 2
MaxEntries == 4
MaxDriverEntries == 2
MaxMergeJobs == 2
MaxGroups == 2

-----------------------------------------------------------------------------
(* Option<T> *)

None == [some |-> FALSE]
Some(v) == [some |-> TRUE, val |-> v]

(* Generic sequence helpers *)

RECURSIVE Flatten(_)
Flatten(ss) == IF ss = <<>> THEN <<>> ELSE Head(ss) \o Flatten(Tail(ss))

Count(s, x) == Cardinality({i \in 1..Len(s) : s[i] = x})

Contains(s, x) == \E i \in 1..Len(s) : s[i] = x

SeqsUpTo(S, n) == UNION {[1..k -> S] : k \in 0..n}

Perms(S) == {p \in [1..Cardinality(S) -> S] : \A i, j \in 1..Cardinality(S) : p[i] = p[j] => i = j}

-----------------------------------------------------------------------------
(* enum From, enum AccAxis and their string forms *)

Formats == {"JpNiedKnet", "UsScsnV2", "NzGeonetV1a", "NzGeonetV2a", "TwPalertSac", "TkAfadAsc"}

Axes == {"Ns", "Ew", "Ud"}

MULTIPLE_AXIS_TYPE == <<"JpNiedKnet", "TkAfadAsc">>

to_snake_case(from) ==
  CASE from = "JpNiedKnet" -> "jp_nied_knet"
    [] from = "UsScsnV2" -> "us_scsn_v2"
    [] from = "NzGeonetV1a" -> "nz_geonet_v1a"
    [] from = "NzGeonetV2a" -> "nz_geonet_v2a"
    [] from = "TwPalertSac" -> "tw_palert_sac"
    [] from = "TkAfadAsc" -> "tk_afad_asc"

as_str(axis) ==
  CASE axis = "Ns" -> "ns"
    [] axis = "Ew" -> "ew"
    [] axis = "Ud" -> "ud"

assign_ext_based_on_from(from) ==
  CASE from = "JpNiedKnet" -> << <<"n", "s">>, <<"e", "w">>, <<"u", "d">> >>
    [] from = "UsScsnV2" -> << <<"v", "2">> >>
    [] from = "NzGeonetV1a" -> << <<"v", "1", "a">> >>
    [] from = "NzGeonetV2a" -> << <<"v", "2", "a">> >>
    [] from = "TwPalertSac" -> << <<"s", "a", "c">> >>
    [] from = "TkAfadAsc" -> << <<"a", "s", "c">> >>

-----------------------------------------------------------------------------
(* std: Path::extension, str::to_lowercase, [&str]::join, as called by     *)
(* FileConfig::validate_extension_for_acceptable_exts                      *)

UpperToLower ==
  [c \in {"A", "C", "D", "E", "L", "M", "N", "O", "S", "T", "U", "V", "W", "X"} |->
     CASE c = "A" -> "a" [] c = "C" -> "c" [] c = "D" -> "d" [] c = "E" -> "e"
       [] c = "L" -> "l" [] c = "M" -> "m" [] c = "N" -> "n" [] c = "O" -> "o"
       [] c = "S" -> "s" [] c = "T" -> "t" [] c = "U" -> "u"
       [] c = "V" -> "v" [] c = "W" -> "w" [] c = "X" -> "x"]

to_lowercase(s) ==
  [i \in 1..Len(s) |-> IF s[i] \in DOMAIN UpperToLower THEN UpperToLower[s[i]] ELSE s[i]]

LastIndexOf(s, ch) ==
  LET I == {i \in 1..Len(s) : s[i] = ch}
  IN IF I = {} THEN 0 ELSE CHOOSE i \in I : \A j \in I : j <= i

\* Path::file_name: the last component, unless it is ".." (or there is none).
file_name(path) ==
  LET seg == SubSeq(path, LastIndexOf(path, "/") + 1, Len(path))
  IN IF seg = <<>> \/ seg = <<".", ".">> THEN None ELSE Some(seg)

\* Path::extension: the part of file_name after its last '.', None when the
\* name has no '.' or only a leading one.
extension(path) ==
  LET name == file_name(path)
  IN IF ~name.some THEN None
     ELSE LET k == LastIndexOf(name.val, ".")
          IN IF k <= 1 THEN None
             ELSE Some(SubSeq(name.val, k + 1, Len(name.val)))

RECURSIVE join(_, _)
join(parts, sep) ==
  IF parts = <<>> THEN <<>>
  ELSE IF Len(parts) = 1 THEN parts[1]
  ELSE parts[1] \o sep \o join(Tail(parts), sep)

-----------------------------------------------------------------------------
(* std: Path::exists, Path::is_file over the filesystem state *)

FsKinds == {"absent", "file", "dir"}

exists(path) == fsys[path] # "absent"

is_file(path) == fsys[path] = "file"

-----------------------------------------------------------------------------
(* impl FileConfig *)

validate_path(file) ==
  IF ~exists(file.path) THEN << <<"PathDoesNotExist", file.path>> >>
  ELSE IF ~is_file(file.path) THEN << <<"PathIsNotFile", file.path>> >>
  ELSE <<>>

\* Variant: the extension is compared as written, without to_lowercase.
validate_extension_case_sensitive(file, acceptable_exts) ==
  LET ext == extension(file.path)
  IN IF ext.some
     THEN IF ~Contains(acceptable_exts, ext.val)
          THEN << <<"InvalidExtension", join(acceptable_exts, <<",", " ">>), ext.val>> >>
          ELSE <<>>
     ELSE << <<"NoExtension", file.path>> >>

validate_extension_for_acceptable_exts(file, acceptable_exts) ==
  LET ext == extension(file.path)
  IN IF ext.some
     THEN LET lowered == to_lowercase(ext.val)
          IN IF ~Contains(acceptable_exts, lowered)
             THEN << <<"InvalidExtension", join(acceptable_exts, <<",", " ">>), lowered>> >>
             ELSE <<>>
     ELSE << <<"NoExtension", file.path>> >>

\* Variant: the path check is skipped once the extension check has failed.
FileConfig_validate_fail_fast(file, acceptable_exts) ==
  IF validate_extension_for_acceptable_exts(file, acceptable_exts) # <<>>
  THEN validate_extension_for_acceptable_exts(file, acceptable_exts)
  ELSE validate_path(file)

FileConfig_validate(file, acceptable_exts) ==
  validate_extension_for_acceptable_exts(file, acceptable_exts) \o validate_path(file)

-----------------------------------------------------------------------------
(* impl GroupConfig *)

position(s, x) == CHOOSE i \in 1..Len(s) : s[i] = x /\ \A j \in 1..(i - 1) : s[j] # x

remove(s, pos) == SubSeq(s, 1, pos - 1) \o SubSeq(s, pos + 1, Len(s))

\* Variant: a declared axis is not removed from required_axis.
RECURSIVE multi_axis_loop_no_remove(_, _, _, _, _)
multi_axis_loop_no_remove(files, required_axis, from, name, id) ==
  IF files = <<>> THEN <<>>
  ELSE LET file == Head(files)
       IN IF file.acc_axis.some
          THEN IF Contains(required_axis, as_str(file.acc_axis.val))
               THEN multi_axis_loop_no_remove(Tail(files), required_axis, from, name, id)
               ELSE << <<"DuplicateAccAxis", to_snake_case(from), name, id>> >>
                    \o multi_axis_loop_no_remove(Tail(files), required_axis, from, name, id)
          ELSE << <<"RequiredAccAxis", name, id>> >>
               \o multi_axis_loop_no_remove(Tail(files), required_axis, from, name, id)

\* The loop over the files of a multi-axis group, required_axis being the
\* axes no earlier file has declared.
RECURSIVE multi_axis_loop(_, _, _, _, _)
multi_axis_loop(files, required_axis, from, name, id) ==
  IF files = <<>> THEN <<>>
  ELSE LET file == Head(files)
       IN IF file.acc_axis.some
          THEN IF Contains(required_axis, as_str(file.acc_axis.val))
               THEN multi_axis_loop(Tail(files),
                                    remove(required_axis, position(required_axis, as_str(file.acc_axis.val))),
                                    from, name, id)
               ELSE << <<"DuplicateAccAxis", to_snake_case(from), name, id>> >>
                    \o multi_axis_loop(Tail(files), required_axis, from, name, id)
          ELSE << <<"RequiredAccAxis", name, id>> >>
               \o multi_axis_loop(Tail(files), required_axis, from, name, id)

\* Variant: the test on acc_axis is is_none() without the negation.
RECURSIVE single_axis_loop_inverted(_, _, _, _)
single_axis_loop_inverted(files, from, name, id) ==
  IF files = <<>> THEN <<>>
  ELSE (IF ~Head(files).acc_axis.some
        THEN << <<"MismatchedAccAxis", to_snake_case(from), name, id>> >>
        ELSE <<>>)
       \o single_axis_loop_inverted(Tail(files), from, name, id)

\* The loop over the files of a single-file-format group.
RECURSIVE single_axis_loop(_, _, _, _)
single_axis_loop(files, from, name, id) ==
  IF files = <<>> THEN <<>>
  ELSE (IF Head(files).acc_axis.some
        THEN << <<"MismatchedAccAxis", to_snake_case(from), name, id>> >>
        ELSE <<>>)
       \o single_axis_loop(Tail(files), from, name, id)

validate_file_by_acc_axis(group, from, name, id) ==
  IF Contains(MULTIPLE_AXIS_TYPE, from)
  THEN multi_axis_loop(group.files, <<"ns", "ew", "ud">>, from, name, id)
  ELSE single_axis_loop(group.files, from, name, id)

\* The file errors are collected first; the `?` on the axis check returns the
\* axis errors alone when there are any.
GroupConfig_validate(group, from, acceptable_exts, name, id) ==
  LET file_errors == Flatten([i \in 1..Len(group.files) |->
                                FileConfig_validate(group.files[i], acceptable_exts)])
      axis_errors == validate_file_by_acc_axis(group, from, name, id)
  IN IF axis_errors # <<>> THEN axis_errors ELSE file_errors

-----------------------------------------------------------------------------
(* impl ConversionConfig *)

\* enumerate() counts from 0: the i-th group has g_index = i - 1.
\* A variant that passes the position counted from 0 as the group's id.
ConversionConfig_validate_g_index(conv) ==
  Flatten([i \in 1..Len(conv.group) |->
             LET g_index == i - 1
             IN GroupConfig_validate(conv.group[i], conv.from,
                                     assign_ext_based_on_from(conv.from), conv.name, g_index)])

ConversionConfig_validate(conv) ==
  Flatten([i \in 1..Len(conv.group) |->
             LET g_index == i - 1
                 id == g_index + 1
             IN GroupConfig_validate(conv.group[i], conv.from,
                                     assign_ext_based_on_from(conv.from), conv.name, id)])

-----------------------------------------------------------------------------
(* impl Config *)

Names == {"main", "sub"}

\* HashSet iteration visits the elements in an order the hasher decides;
\* iter_order lists all names in that order.
hashset_to_string(set, iter_order) ==
  Flatten([i \in 1..Len(iter_order) |->
             IF iter_order[i] \in set THEN <<iter_order[i], "\n">> ELSE <<>>])

RECURSIVE duplicate_name_loop(_, _, _)
duplicate_name_loop(all_names, duplicate_name_set, iter_order) ==
  IF all_names = <<>> THEN <<>>
  ELSE IF Head(all_names) \in duplicate_name_set
       THEN << <<"DuplicateNames", hashset_to_string(duplicate_name_set, iter_order)>> >>
       ELSE duplicate_name_loop(Tail(all_names), duplicate_name_set \cup {Head(all_names)}, iter_order)

validate_duplicate_name(all_names, iter_order) ==
  duplicate_name_loop(all_names, {}, iter_order)

\* A variant that puts the outcome of the name check in front of the
\* violations of the conversions.
Config_validate_names_first(cfg, iter_order) ==
  LET all_names == [i \in 1..Len(cfg.conversion) |-> cfg.conversion[i].name]
  IN validate_duplicate_name(all_names, iter_order)
     \o Flatten([i \in 1..Len(cfg.conversion) |-> ConversionConfig_validate(cfg.conversion[i])])

Config_validate(cfg, iter_order) ==
  LET all_names == [i \in 1..Len(cfg.conversion) |-> cfg.conversion[i].name]
  IN Flatten([i \in 1..Len(cfg.conversion) |-> ConversionConfig_validate(cfg.conversion[i])])
     \o validate_duplicate_name(all_names, iter_order)

-----------------------------------------------------------------------------
(* The configurations and filesystems the model starts from *)

\* "a.ns" "a.NS" "a.Ew" "a.ud" "a.v2" "a.V1A" "a.v2a" "a.SAC" "a.asc" "a.txt"
\* "a" ".ns" "a." "d.ns/a" "a.ns.txt" "a.txt.UD" ".."
FilePaths ==
  { <<"a", ".", "n", "s">>, <<"a", ".", "N", "S">>, <<"a", ".", "E", "w">>,
    <<"a", ".", "u", "d">>, <<"a", ".", "v", "2">>, <<"a", ".", "V", "1", "A">>,
    <<"a", ".", "v", "2", "a">>, <<"a", ".", "S", "A", "C">>, <<"a", ".", "a", "s", "c">>,
    <<"a", ".", "t", "x", "t">>, <<"a">>, <<".", "n", "s">>, <<"a", ".">>,
    <<"d", ".", "n", "s", "/", "a">>, <<"a", ".", "n", "s", ".", "t", "x", "t">>,
    <<"a", ".", "t", "x", "t", ".", "U", "D">>, <<".", ".">> }

GoodPath(from) == <<"a", ".">> \o assign_ext_based_on_from(from)[1]

BadPath == <<"a", ".", "t", "x", "t">>

OptAxes == {None} \cup {Some(a) : a \in Axes}

GlobalConfig == [name_format |-> "YyyymmddHhmmssSnN"]

ConversionConfig(name, from, group) == [name |-> name, from |-> from, to |-> "JpJmaCsv", group |-> group]

EmptyGroup == [files |-> <<>>]

GroupFsys == [p \in {GoodPath(f) : f \in Formats} \cup {BadPath} |-> IF p = BadPath THEN "absent" ELSE "file"]

GroupFiles(from) == [path : {GoodPath(from), BadPath}, acc_axis : OptAxes]

JobGroups == { <<>>, << [files |-> << [path |-> BadPath, acc_axis |-> None] >>] >> }

NoCall == [op |-> "none", c |-> 0, g |-> 0, f |-> 0]

\* Nothing has been called yet.
Idle ==
  /\ pc = "start"
  /\ call = NoCall
  /\ errors = <<>>
  /\ result = <<>>
  /\ ran = <<>>
  /\ logged = <<>>
  /\ exit_code = None
  /\ printed = FALSE
  /\ again = None

\* No command line: the library is called directly.
NoDriver ==
  /\ args = [input_file_path |-> <<>>, output_dir_path |-> <<>>]
  /\ readable = TRUE
  /\ content = [ok |-> FALSE]

\* One job, one group, one file: every format, path and kind of path.
InitFile ==
  /\ \E from \in Formats, path \in FilePaths, kind \in FsKinds :
       /\ config = [global |-> GlobalConfig,
                    conversion |-> << ConversionConfig("main", from,
                                        << [files |-> << [path |-> path, acc_axis |-> None] >>] >>) >>]
       /\ fsys = [p \in {path} |-> kind]
  /\ conversions = <<>>
  /\ Idle
  /\ NoDriver

\* One job whose last group has up to MaxFiles files, each sound or unsound
\* as a file and with any axis declaration, after up to MaxLead empty groups.
InitGroup ==
  /\ \E from \in Formats, lead \in 0..MaxLead :
       \E files \in SeqsUpTo(GroupFiles(from), MaxFiles) :
         config = [global |-> GlobalConfig,
                   conversion |-> << ConversionConfig("main", from,
                                       [i \in 1..lead |-> EmptyGroup] \o << [files |-> files] >>) >>]
  /\ fsys = GroupFsys
  /\ conversions = <<>>
  /\ Idle
  /\ NoDriver

\* Up to MaxJobs jobs of any names, each with no group or one unsound file.
InitJobs ==
  /\ \E k \in 0..MaxJobs :
       \E names \in [1..k -> Names], groups \in [1..k -> JobGroups] :
         config = [global |-> GlobalConfig,
                   conversion |-> [i \in 1..k |-> ConversionConfig(names[i], "UsScsnV2", groups[i])]]
  /\ fsys = GroupFsys
  /\ conversions = <<>>
  /\ Idle
  /\ NoDriver

\* Groups with a violation each: a file with an axis the format does not
\* take, and a file with an unacceptable extension at a path that is absent.
MergeGroups ==
  { [files |-> << [path |-> GoodPath("UsScsnV2"), acc_axis |-> Some("Ns")] >>],
    [files |-> << [path |-> BadPath, acc_axis |-> None] >>] }

\* Up to MaxMergeJobs jobs of any names, each with up to MaxGroups groups.
InitMerge ==
  /\ \E k \in 0..MaxMergeJobs :
       \E names \in [1..k -> Names], groups \in [1..k -> SeqsUpTo(MergeGroups, MaxGroups)] :
         config = [global |-> GlobalConfig,
                   conversion |-> [i \in 1..k |-> ConversionConfig(names[i], "UsScsnV2", groups[i])]]
  /\ fsys = GroupFsys
  /\ conversions = <<>>
  /\ Idle
  /\ NoDriver

Init == InitFile \/ InitGroup \/ InitJobs

-----------------------------------------------------------------------------
(* The public entry points of the validator, each called on the
   configuration or on one of its parts *)

ConfigValidate ==
  /\ pc = "start"
  /\ \E iter_order \in Perms(Names) : errors' = Config_validate(config, iter_order)
  /\ call' = [op |-> "Config::validate", c |-> 0, g |-> 0, f |-> 0]
  /\ pc' = "done"
  /\ UNCHANGED <<config, fsys, conversions, result, driver_vars, again>>

\* A second call of Config::validate on the same configuration and the same
\* filesystem; the HashSet of the second call has an iteration order of its
\* own.
ConfigValidateAgain ==
  /\ pc = "done"
  /\ call.op = "Config::validate"
  /\ \E iter_order \in Perms(Names) : again' = Some(Config_validate(config, iter_order))
  /\ pc' = "redone"
  /\ UNCHANGED <<config, fsys, call, errors, conversions, result, driver_vars>>

ConversionValidate ==
  /\ pc = "start"
  /\ \E c \in 1..Len(config.conversion) :
       /\ errors' = ConversionConfig_validate(config.conversion[c])
       /\ call' = [op |-> "ConversionConfig::validate", c |-> c, g |-> 0, f |-> 0]
  /\ pc' = "done"
  /\ UNCHANGED <<config, fsys, conversions, result, driver_vars, again>>

\* Called as ConversionConfig::validate calls it: with the extensions of the
\* job's format, the job's name and the group's id.
GroupValidate ==
  /\ pc = "start"
  /\ \E c \in 1..Len(config.conversion) :
       \E g \in 1..Len(config.conversion[c].group) :
         LET conv == config.conversion[c]
         IN /\ errors' = GroupConfig_validate(conv.group[g], conv.from,
                                              assign_ext_based_on_from(conv.from), conv.name, g)
            /\ call' = [op |-> "GroupConfig::validate", c |-> c, g |-> g, f |-> 0]
  /\ pc' = "done"
  /\ UNCHANGED <<config, fsys, conversions, result, driver_vars, again>>

FileValidate ==
  /\ pc = "start"
  /\ \E c \in 1..Len(config.conversion) :
       \E g \in 1..Len(config.conversion[c].group) :
         \E f \in 1..Len(config.conversion[c].group[g].files) :
           LET conv == config.conversion[c]
           IN /\ errors' = FileConfig_validate(conv.group[g].files[f],
                                               assign_ext_based_on_from(conv.from))
              /\ call' = [op |-> "FileConfig::validate", c |-> c, g |-> g, f |-> f]
  /\ pc' = "done"
  /\ UNCHANGED <<config, fsys, conversions, result, driver_vars, again>>

-----------------------------------------------------------------------------
(* analysis_config_file_parser.rs: Config::group_by_key *)

GKeys == {1, 5}

OptKeys == {None} \cup {Some(k) : k \in GKeys}

Group(g_key) == [path |-> "rec.dat", component |-> None, g_key |-> g_key]

Conversion(groups) == [from |-> "JpNiedKnet", to |-> "JpJmaCsv", groups |-> groups]

KeysOf(conversion) == {conversion.groups[i].g_key : i \in 1..Len(conversion.groups)}

\* &Group: the entry at position idx of conversion conv.
Ref(conv, idx) == [conv |-> conv, idx |-> idx]

\* Variant: the map entry is overwritten instead of pushed to, so that only
\* the last entry with the key is kept.
RECURSIVE IndicesWithKey_overwrite(_, _, _)
IndicesWithKey_overwrite(groups, i, key) ==
  IF i > Len(groups) THEN <<>>
  ELSE IF groups[i].g_key = key /\ IndicesWithKey_overwrite(groups, i + 1, key) = <<>>
       THEN <<i>>
       ELSE IndicesWithKey_overwrite(groups, i + 1, key)

RECURSIVE IndicesWithKey(_, _, _)
IndicesWithKey(groups, i, key) ==
  IF i > Len(groups) THEN <<>>
  ELSE (IF groups[i].g_key = key THEN <<i>> ELSE <<>>) \o IndicesWithKey(groups, i + 1, key)

\* A variant that puts each new entry in front of those already under its
\* key.
grouped_push_front(convs, c) ==
  [key \in KeysOf(convs[c]) |->
     LET idxs == IndicesWithKey(convs[c].groups, 1, key)
     IN [j \in 1..Len(idxs) |-> Ref(c, idxs[Len(idxs) + 1 - j])]]

\* The HashMap of one conversion: each key present maps to the entries
\* pushed under it, in the order of the entry list.
grouped(convs, c) ==
  [key \in KeysOf(convs[c]) |->
     LET idxs == IndicesWithKey(convs[c].groups, 1, key)
     IN [j \in 1..Len(idxs) |-> Ref(c, idxs[j])]]

\* A variant with one HashMap for the whole configuration instead of one per
\* conversion.
group_by_key_one_map(convs, iter_orders) ==
  LET keys == UNION {KeysOf(convs[c]) : c \in 1..Len(convs)}
      order == CHOOSE p \in Perms(keys) : TRUE
  IN [j \in 1..Len(order) |->
        Flatten([c \in 1..Len(convs) |->
                   IF order[j] \in KeysOf(convs[c]) THEN grouped(convs, c)[order[j]] ELSE <<>>])]

\* iter_orders[c] is the order in which the HashMap of conversion c is
\* iterated: its keys in an order the hasher decides.
group_by_key(convs, iter_orders) ==
  Flatten([c \in 1..Len(convs) |->
             [j \in 1..Len(iter_orders[c]) |-> grouped(convs, c)[iter_orders[c][j]]]])

IterOrders(convs) ==
  {o \in [1..Len(convs) -> UNION {Perms(KeysOf(convs[c])) : c \in 1..Len(convs)}] :
     \A c \in 1..Len(convs) : o[c] \in Perms(KeysOf(convs[c]))}

\* The entries first + 1 .. first + n of the flat list of keys, as one
\* conversion.
Slice(keys, first, n) == Conversion([i \in 1..n |-> Group(keys[first + i])])

RECURSIVE Before(_, _)
Before(lens, c) == IF c = 1 THEN 0 ELSE lens[c - 1] + Before(lens, c - 1)

\* Up to MaxConversions conversions with up to MaxEntries entries in all,
\* each entry with any g_key or none.
InitResolve ==
  /\ \E n \in 0..MaxConversions, t \in 0..MaxEntries :
       \E keys \in [1..t -> OptKeys], lens \in [1..n -> 0..t] :
         /\ Before(lens, n + 1) = t
         /\ conversions = [c \in 1..n |-> Slice(keys, Before(lens, c), lens[c])]
  /\ config = [global |-> GlobalConfig, conversion |-> <<>>]
  /\ fsys = GroupFsys
  /\ Idle
  /\ NoDriver

GroupByKey ==
  /\ pc = "start"
  /\ \E iter_orders \in IterOrders(conversions) :
       result' = group_by_key(conversions, iter_orders)
  /\ pc' = "done"
  /\ call' = [op |-> "Config::group_by_key", c |-> 0, g |-> 0, f |-> 0]
  /\ UNCHANGED <<config, fsys, errors, conversions, driver_vars, again>>

-----------------------------------------------------------------------------
(* extractor/mod.rs, extractor/tw_paleart_sac.rs *)

\* create_extractor: the arm of every format but TwPalertSac is todo!(),
\* which panics; TwPalertSac gets an extractor holding the conversion.
create_extractor(conversion) ==
  IF conversion.from = "TwPalertSac"
  THEN [panic |-> FALSE, extractor |-> [kind |-> "TwPalertSacExtractor", unextracted |-> conversion]]
  ELSE [panic |-> TRUE]

\* TwPalertSacExtractor::extract: its body is todo!().
TwPalertSacExtractor_extract(extractor) == [panic |-> TRUE]

CreateExtractor ==
  /\ pc = "start"
  /\ \E c \in 1..Len(config.conversion) :
       /\ call' = [op |-> "create_extractor", c |-> c, g |-> 0, f |-> 0]
       /\ pc' = IF create_extractor(config.conversion[c]).panic THEN "panicked" ELSE "extractor"
  /\ UNCHANGED <<config, fsys, errors, conversions, result, driver_vars, again>>

Extract ==
  /\ pc = "extractor"
  /\ call' = [call EXCEPT !.op = "Extractor::extract"]
  /\ pc' = IF TwPalertSacExtractor_extract(create_extractor(config.conversion[call.c]).extractor).panic
            THEN "panicked" ELSE "extracted"
  /\ UNCHANGED <<config, fsys, errors, conversions, result, driver_vars, again>>

NextExtract == ConfigValidate \/ CreateExtractor \/ Extract

-----------------------------------------------------------------------------
(* cli.rs *)

is_dir(path) == fsys[path] = "dir"

valid_extensions == << <<"t", "o", "m", "l">> >>

\* An anyhow error built from the collected ErrorContext messages.
MultipleValidationErrors(messages) == <<"Multiple validation errors", messages>>

\* A variant that compares the extension as written, without lower-casing
\* it.
validate_input_file_path_case_sensitive(path) ==
  LET extension_result == extension(path)
      extension_errors ==
        IF ~extension_result.some
        THEN << <<"File has no extension">> >>
        ELSE IF ~Contains(valid_extensions, extension_result.val)
             THEN << <<"Invalid file extension", extension_result.val,
                       join(valid_extensions, <<",", " ">>)>> >>
             ELSE <<>>
      path_errors ==
        IF ~exists(path) THEN << <<"Path does not exist", path>> >>
        ELSE IF ~is_file(path) THEN << <<"Path is not a file", path>> >>
        ELSE <<>>
      errs == extension_errors \o path_errors
  IN IF errs # <<>> THEN <<MultipleValidationErrors(errs)>> ELSE <<>>

\* Args::validate_input_file_path: the extension check and the path check are
\* both made, and their messages are joined into one error.
validate_input_file_path(path) ==
  LET extension_result ==
        IF extension(path).some THEN Some(to_lowercase(extension(path).val)) ELSE None
      extension_errors ==
        IF ~extension_result.some
        THEN << <<"File has no extension">> >>
        ELSE IF ~Contains(valid_extensions, extension_result.val)
             THEN << <<"Invalid file extension", extension_result.val,
                       join(valid_extensions, <<",", " ">>)>> >>
             ELSE <<>>
      path_errors ==
        IF ~exists(path) THEN << <<"Path does not exist", path>> >>
        ELSE IF ~is_file(path) THEN << <<"Path is not a file", path>> >>
        ELSE <<>>
      errs == extension_errors \o path_errors
  IN IF errs # <<>> THEN <<MultipleValidationErrors(errs)>> ELSE <<>>

\* Args::validate_output_dir_path: it only looks at the path; nothing is
\* created.
validate_output_dir_path(path) ==
  LET errs ==
        IF ~exists(path) THEN << <<"Path does not exist", path>> >>
        ELSE IF ~is_dir(path) THEN << <<"Path is not a directory", path>> >>
        ELSE <<>>
  IN IF errs # <<>> THEN <<MultipleValidationErrors(errs)>> ELSE <<>>

\* A variant without the early return: the output directory is looked at
\* whatever the input file check said.
Args_validate_no_short_circuit(a) ==
  LET input == validate_input_file_path(a.input_file_path)
      output == validate_output_dir_path(a.output_dir_path)
  IN [checks |-> <<"validate_input_file_path", "validate_output_dir_path">>,
      errors |-> (IF input # <<>>
                  THEN << <<"Failed to validate input file", a.input_file_path, input[1]>> >>
                  ELSE <<>>)
                 \o (IF output # <<>>
                     THEN << <<"Failed to validate output directory", a.output_dir_path, output[1]>> >>
                     ELSE <<>>)]

\* Args::validate: each check is followed by `?`, so the output directory is
\* looked at only when the input file passed.  checks lists the checks made.
Args_validate(a) ==
  LET input == validate_input_file_path(a.input_file_path)
      output == validate_output_dir_path(a.output_dir_path)
  IN IF input # <<>>
     THEN [checks |-> <<"validate_input_file_path">>,
           errors |-> << <<"Failed to validate input file", a.input_file_path, input[1]>> >>]
     ELSE [checks |-> <<"validate_input_file_path", "validate_output_dir_path">>,
           errors |-> IF output # <<>>
                      THEN << <<"Failed to validate output directory", a.output_dir_path, output[1]>> >>
                      ELSE <<>>]

InputPaths ==
  { <<"c", ".", "t", "o", "m", "l">>, <<"c", ".", "T", "O", "M", "L">>,
    <<"c", ".", "t", "x", "t">>, <<"c">>, <<".", "t", "o", "m", "l">>, <<"c", ".">> }

OutputDir == <<"o", "u", "t">>

\* A command line, the filesystem under its two paths, and the configuration
\* file: whether it can be read, and what it parses to.
InitMain ==
  /\ \E input \in InputPaths, ik \in FsKinds, ok \in FsKinds :
       /\ args = [input_file_path |-> input, output_dir_path |-> OutputDir]
       /\ fsys = [p \in {input, OutputDir} |-> IF p = input THEN ik ELSE ok]
  /\ readable \in BOOLEAN
  /\ \/ content = [ok |-> FALSE]
     \/ \E t \in 0..MaxDriverEntries : \E keys \in [1..t -> OptKeys] :
          content = [ok |-> TRUE,
                     conversions |-> IF t = 0 THEN <<>> ELSE <<Slice(keys, 0, t)>>]
  /\ config = [global |-> GlobalConfig, conversion |-> <<>>]
  /\ conversions = <<>>
  /\ Idle

ArgsValidate ==
  /\ pc = "start"
  /\ errors' = Args_validate(args).errors
  /\ pc' = "done"
  /\ call' = [op |-> "Args::validate", c |-> 0, g |-> 0, f |-> 0]
  /\ UNCHANGED <<config, fsys, conversions, result, driver_vars, again>>

ValidateInputFilePath ==
  /\ pc = "start"
  /\ errors' = validate_input_file_path(args.input_file_path)
  /\ pc' = "done"
  /\ call' = [op |-> "Args::validate_input_file_path", c |-> 0, g |-> 0, f |-> 0]
  /\ UNCHANGED <<config, fsys, conversions, result, driver_vars, again>>

ValidateOutputDirPath ==
  /\ pc = "start"
  /\ errors' = validate_output_dir_path(args.output_dir_path)
  /\ pc' = "done"
  /\ call' = [op |-> "Args::validate_output_dir_path", c |-> 0, g |-> 0, f |-> 0]
  /\ UNCHANGED <<config, fsys, conversions, result, driver_vars, again>>

NextCli == ArgsValidate \/ ValidateInputFilePath \/ ValidateOutputDirPath

-----------------------------------------------------------------------------
(* main.rs, errors.rs *)

\* CustomErrors::exit_code: by variant.
CustomErrors_exit_code(variant) ==
  CASE variant = "ValidationError" -> 2
    [] variant = "AnalysisConfigError" -> 3

\* The CustomErrors variant main wraps each stage's failure in: the read
\* failure goes through CustomErrors::from and the parse failure is built by
\* hand, both into the variant of the configuration-file errors.
CustomErrors_from(stage) ==
  CASE stage = "Args::validate" -> "ValidationError"
    [] stage = "read_config_from_input_file" -> "AnalysisConfigError"
    [] stage = "toml::de::from_str" -> "AnalysisConfigError"

\* read_config_from_input_file: read_to_string of the input path.
read_config_from_input_file(input_file_path) ==
  IF is_file(input_file_path) /\ readable
  THEN [ok |-> TRUE, val |-> content]
  ELSE [ok |-> FALSE, err |-> << <<"Io", input_file_path>> >>]

\* toml::de::from_str into Config.
from_str(config_toml_str) ==
  IF config_toml_str.ok
  THEN [ok |-> TRUE, val |-> config_toml_str.conversions]
  ELSE [ok |-> FALSE, err |-> << <<"FailedToParse">> >>]

\* main, up to the end of args.validate().
MainValidateArgs ==
  /\ pc = "start"
  /\ call' = [op |-> "main", c |-> 0, g |-> 0, f |-> 0]
  /\ LET r == Args_validate(args)
         variant == CustomErrors_from("Args::validate")
     IN /\ ran' = ran \o r.checks
        /\ IF r.errors # <<>>
           THEN /\ logged' = Append(logged, [variant |-> variant, errors |-> r.errors])
                /\ exit_code' = Some(CustomErrors_exit_code(variant))
                /\ pc' = "exited"
           ELSE /\ pc' = "validated"
                /\ UNCHANGED <<logged, exit_code>>
  /\ UNCHANGED <<config, fsys, errors, conversions, result, args, readable, content, printed, again>>

\* main: reading the configuration file.
MainReadConfig ==
  /\ pc = "validated"
  /\ LET r == read_config_from_input_file(args.input_file_path)
         variant == CustomErrors_from("read_config_from_input_file")
     IN /\ ran' = Append(ran, "read_config_from_input_file")
        /\ IF ~r.ok
           THEN /\ logged' = Append(logged, [variant |-> variant, errors |-> r.err])
                /\ exit_code' = Some(CustomErrors_exit_code(variant))
                /\ pc' = "exited"
           ELSE /\ pc' = "read"
                /\ UNCHANGED <<logged, exit_code>>
  /\ UNCHANGED <<config, fsys, call, errors, conversions, result, args, readable, content, printed, again>>

\* main: parsing what was read.
MainParseConfig ==
  /\ pc = "read"
  /\ LET r == from_str(read_config_from_input_file(args.input_file_path).val)
         variant == CustomErrors_from("toml::de::from_str")
     IN /\ ran' = Append(ran, "toml::de::from_str")
        /\ IF ~r.ok
           THEN /\ logged' = Append(logged, [variant |-> variant, errors |-> r.err])
                /\ exit_code' = Some(CustomErrors_exit_code(variant))
                /\ pc' = "exited"
                /\ UNCHANGED conversions
           ELSE /\ conversions' = r.val
                /\ pc' = "parsed"
                /\ UNCHANGED <<logged, exit_code>>
  /\ UNCHANGED <<config, fsys, call, errors, result, args, readable, content, printed, again>>

\* main: grouping and printing the groups, then Ok(()).
MainGroupByKey ==
  /\ pc = "parsed"
  /\ \E iter_orders \in IterOrders(conversions) :
       result' = group_by_key(conversions, iter_orders)
  /\ ran' = Append(ran, "Config::group_by_key")
  /\ printed' = TRUE
  /\ exit_code' = Some(0)
  /\ pc' = "finished"
  /\ UNCHANGED <<config, fsys, call, errors, conversions, args, readable, content, logged, again>>

NextMain == MainValidateArgs \/ MainReadConfig \/ MainParseConfig \/ MainGroupByKey

NextResolve == GroupByKey

Next == ConfigValidate \/ ConversionValidate \/ GroupValidate \/ FileValidate

NextMerge == ConfigValidate \/ ConversionValidate

NextRerun == ConfigValidate \/ ConfigValidateAgain

Spec == Init /\ [][Next]_vars

SpecFile == InitFile /\ [][Next]_vars

SpecGroup == InitGroup /\ [][Next]_vars

SpecJobs == InitJobs /\ [][Next]_vars

SpecMerge == InitMerge /\ [][NextMerge]_vars

SpecRerun == InitJobs /\ [][NextRerun]_vars

SpecExtract == InitFile /\ [][NextExtract]_vars

SpecCli == InitMain /\ [][NextCli]_vars

SpecMain == InitMain /\ [][NextMain]_vars

SpecResolve == InitResolve /\ [][NextResolve]_vars

-----------------------------------------------------------------------------
(* Vocabulary of the properties *)

MultiAxisFormats == {"JpNiedKnet", "TkAfadAsc"}

SingleFileFormats == {"UsScsnV2", "NzGeonetV1a", "NzGeonetV2a", "TwPalertSac"}

Returns(op) == pc = "done" /\ call.op = op

Kind(e) == e[1]

OfKinds(errs, kinds) == SelectSeq(errs, LAMBDA e : Kind(e) \in kinds)

AllIn(errs, collected) == \A i \in 1..Len(errs) : Contains(collected, errs[i])

JobNames == [i \in 1..Len(config.conversion) |-> config.conversion[i].name]

Occurrences(n) == Cardinality({i \in 1..Len(JobNames) : JobNames[i] = n})

Jobs == 1..Len(config.conversion)

GroupsOf(c) == 1..Len(config.conversion[c].group)

FilesOf(c, g) == config.conversion[c].group[g].files

FileErrors(c, g) ==
  Flatten([f \in 1..Len(FilesOf(c, g)) |->
             FileConfig_validate(FilesOf(c, g)[f], assign_ext_based_on_from(config.conversion[c].from))])

AxisErrors(c, g) ==
  validate_file_by_acc_axis(config.conversion[c].group[g], config.conversion[c].from,
                            config.conversion[c].name, g)

DeclaredAxes(c, g) == {FilesOf(c, g)[f].acc_axis.val : f \in {f \in 1..Len(FilesOf(c, g)) : FilesOf(c, g)[f].acc_axis.some}}

\* The names listed in the payload of a DuplicateNames violation.
PayloadNames(e) == {e[2][i] : i \in 1..Len(e[2])} \ {"\n"}

-----------------------------------------------------------------------------
(* Properties *)

\* C1: Config.validate never fails fast: the list it returns contains every
\* violation found by every sub-rule - the extension and path checks of each
\* file, the axis-policy check of each group, the name uniqueness across
\* jobs; a group with both a file-level and an axis-policy violation has both
\* kinds in the result.
C1_EveryViolationCollected ==
  Returns("Config::validate") =>
    /\ \A c \in Jobs : \A g \in GroupsOf(c) :
         AllIn(FileErrors(c, g), errors) /\ AllIn(AxisErrors(c, g), errors)
    /\ (\E n \in Names : Occurrences(n) >= 2) => Contains([i \in 1..Len(errors) |-> Kind(errors[i])], "DuplicateNames")

\* C2: Config.validate emits exactly one DuplicateName violation for each
\* distinct job name that occurs two or more times, its payload being that
\* name; names occurring once appear in no payload.
C2_OneViolationPerDuplicatedName ==
  Returns("Config::validate") =>
    LET dups == {n \in Names : Occurrences(n) >= 2}
        found == OfKinds(errors, {"DuplicateNames"})
    IN /\ Len(found) = Cardinality(dups)
       /\ \A n \in dups : \E i \in 1..Len(found) : PayloadNames(found[i]) = {n}
       /\ \A i \in 1..Len(found) : PayloadNames(found[i]) \subseteq dups

\* C3: for a multi-axis source format, a group in which some axis of
\* NS/EW/UD is declared by no file does not pass the axis-policy check, and
\* validation fails with a missing-axis violation for each absent axis.
C3_MissingAxisRejected ==
  Returns("Config::validate") =>
    \A c \in Jobs : \A g \in GroupsOf(c) :
      config.conversion[c].from \in MultiAxisFormats =>
        \A axis \in Axes \ DeclaredAxes(c, g) :
          /\ AxisErrors(c, g) # <<>>
          /\ \E i \in 1..Len(errors) : Kind(errors[i]) = "MissingAccAxis" /\ Contains(errors[i], as_str(axis))

\* The number of files of group g of job c that declare an axis some
\* earlier file of the group declared.
RepeatedDeclarations(c, g) ==
  Cardinality({f \in 1..Len(FilesOf(c, g)) :
                 /\ FilesOf(c, g)[f].acc_axis.some
                 /\ \E e \in 1..(f - 1) : FilesOf(c, g)[e].acc_axis = FilesOf(c, g)[f].acc_axis})

AxisDeclarations(c, g) ==
  Cardinality({f \in 1..Len(FilesOf(c, g)) : FilesOf(c, g)[f].acc_axis.some})

RECURSIVE Sum(_)
Sum(ns) == IF ns = <<>> THEN 0 ELSE Head(ns) + Sum(Tail(ns))

\* Over the groups whose job has a format in formats and whose violations
\* carry the tag <<snake, name, id>>, the sum of PerGroup.
Tagged(formats, snake, name, id, PerGroup(_, _)) ==
  Sum([c \in Jobs |->
         Sum([g \in GroupsOf(c) |->
                IF /\ config.conversion[c].from \in formats
                   /\ to_snake_case(config.conversion[c].from) = snake
                   /\ config.conversion[c].name = name
                   /\ g = id
                THEN PerGroup(c, g) ELSE 0])])

AxisKinds == {"MismatchedAccAxis", "DuplicateAccAxis", "RequiredAccAxis"}

\* C4: for a multi-axis source format, each file that declares an axis an
\* earlier file of its group already declared yields one DuplicateAccAxis
\* violation in the result of validation, tagged with the format, the job
\* name and the position of the group in the job (counted from 1).
C4_DuplicateAxisReported ==
  Returns("Config::validate") =>
    /\ \A c \in Jobs : \A g \in GroupsOf(c) :
         config.conversion[c].from \in MultiAxisFormats =>
           LET snake == to_snake_case(config.conversion[c].from)
               name == config.conversion[c].name
           IN Count(errors, <<"DuplicateAccAxis", snake, name, g>>)
                = Tagged(MultiAxisFormats, snake, name, g, RepeatedDeclarations)
    /\ Len(OfKinds(errors, {"DuplicateAccAxis"}))
         = Sum([c \in Jobs |-> Sum([g \in GroupsOf(c) |->
                  IF config.conversion[c].from \in MultiAxisFormats
                  THEN RepeatedDeclarations(c, g) ELSE 0])])

C4_Witness ==
  /\ Returns("Config::validate")
  /\ config.conversion[1].from = "TkAfadAsc"
  /\ Len(config.conversion[1].group) = 2
  /\ Len(FilesOf(1, 2)) = 3
  /\ \A f \in 1..3 : FilesOf(1, 2)[f].acc_axis = Some("Ns")
  /\ Count(errors, <<"DuplicateAccAxis", "tk_afad_asc", "main", 2>>) = 2

\* C5: for a single-file source format, every file that declares an axis
\* yields exactly one MismatchedAccAxis violation, a file that declares none
\* yields no axis violation, and the axis-policy check of a group passes
\* iff no file of the group declares an axis.
C5_UnexpectedAxisReported ==
  Returns("Config::validate") =>
    /\ \A c \in Jobs : \A g \in GroupsOf(c) :
         config.conversion[c].from \in SingleFileFormats =>
           LET snake == to_snake_case(config.conversion[c].from)
               name == config.conversion[c].name
           IN /\ Count(errors, <<"MismatchedAccAxis", snake, name, g>>)
                   = Tagged(SingleFileFormats, snake, name, g, AxisDeclarations)
              /\ (AxisErrors(c, g) = <<>>) <=> (AxisDeclarations(c, g) = 0)
    /\ (\A c \in Jobs : config.conversion[c].from \in SingleFileFormats) =>
         Len(OfKinds(errors, AxisKinds))
           = Sum([c \in Jobs |-> Sum([g \in GroupsOf(c) |-> AxisDeclarations(c, g)])])

C5_Witness ==
  /\ Returns("Config::validate")
  /\ config.conversion[1].from = "TwPalertSac"
  /\ Len(config.conversion[1].group) = 2
  /\ Len(FilesOf(1, 2)) = 3
  /\ FilesOf(1, 2)[1].acc_axis = Some("Ud")
  /\ FilesOf(1, 2)[2].acc_axis = None
  /\ FilesOf(1, 2)[3].acc_axis = Some("Ud")
  /\ errors = << <<"MismatchedAccAxis", "tw_palert_sac", "main", 2>>,
                 <<"MismatchedAccAxis", "tw_palert_sac", "main", 2>> >>

\* C6: for a single-file source format a logical recording is exactly one
\* file: a group that lists two or more files (none declaring an axis, all
\* sound as files), or no file at all, does not pass validation.
C6_SingleFileGroupHasOneFile ==
  Returns("Config::validate") =>
    \A c \in Jobs : \A g \in GroupsOf(c) :
      /\ config.conversion[c].from \in SingleFileFormats
      /\ Len(FilesOf(c, g)) # 1
      /\ AxisDeclarations(c, g) = 0
      /\ FileErrors(c, g) = <<>>
      => errors # <<>>

\* The file FileConfig::validate was called on, and the format of its job.
CalledFile == FilesOf(call.c, call.g)[call.f]

CalledFrom == config.conversion[call.c].from

\* The acceptable extensions of each format and their list joined by ", ".
AcceptableSet(from) ==
  CASE from = "JpNiedKnet" -> { <<"n", "s">>, <<"e", "w">>, <<"u", "d">> }
    [] from = "UsScsnV2" -> { <<"v", "2">> }
    [] from = "NzGeonetV1a" -> { <<"v", "1", "a">> }
    [] from = "NzGeonetV2a" -> { <<"v", "2", "a">> }
    [] from = "TwPalertSac" -> { <<"s", "a", "c">> }
    [] from = "TkAfadAsc" -> { <<"a", "s", "c">> }

AcceptableJoined(from) ==
  CASE from = "JpNiedKnet" -> <<"n", "s", ",", " ", "e", "w", ",", " ", "u", "d">>
    [] from = "UsScsnV2" -> <<"v", "2">>
    [] from = "NzGeonetV1a" -> <<"v", "1", "a">>
    [] from = "NzGeonetV2a" -> <<"v", "2", "a">>
    [] from = "TwPalertSac" -> <<"s", "a", "c">>
    [] from = "TkAfadAsc" -> <<"a", "s", "c">>

\* The extension of each path of FilePaths, lower-cased, written out by hand.
LoweredExtension(path) ==
  CASE path = <<"a", ".", "n", "s">> -> Some(<<"n", "s">>)
    [] path = <<"a", ".", "N", "S">> -> Some(<<"n", "s">>)
    [] path = <<"a", ".", "E", "w">> -> Some(<<"e", "w">>)
    [] path = <<"a", ".", "u", "d">> -> Some(<<"u", "d">>)
    [] path = <<"a", ".", "v", "2">> -> Some(<<"v", "2">>)
    [] path = <<"a", ".", "V", "1", "A">> -> Some(<<"v", "1", "a">>)
    [] path = <<"a", ".", "v", "2", "a">> -> Some(<<"v", "2", "a">>)
    [] path = <<"a", ".", "S", "A", "C">> -> Some(<<"s", "a", "c">>)
    [] path = <<"a", ".", "a", "s", "c">> -> Some(<<"a", "s", "c">>)
    [] path = <<"a", ".", "t", "x", "t">> -> Some(<<"t", "x", "t">>)
    [] path = <<"a">> -> None
    [] path = <<".", "n", "s">> -> None
    [] path = <<"a", ".">> -> Some(<<>>)
    [] path = <<"d", ".", "n", "s", "/", "a">> -> None
    [] path = <<"a", ".", "n", "s", ".", "t", "x", "t">> -> Some(<<"t", "x", "t">>)
    [] path = <<"a", ".", "t", "x", "t", ".", "U", "D">> -> Some(<<"u", "d">>)
    [] path = <<".", ".">> -> None

ExtensionKinds == {"InvalidExtension", "NoExtension"}

PathKinds == {"PathDoesNotExist", "PathIsNotFile"}

\* C7: the extension check is case-insensitive and total: no violation iff
\* the lower-cased extension of the path is in the acceptable set of the
\* format, NoExtension(path) iff the path has no extension, and otherwise
\* InvalidExtension with the acceptable set joined by ", " as first field and
\* the lower-cased extension as second.
C7_ExtensionCheck ==
  Returns("FileConfig::validate") =>
    LET ext == LoweredExtension(CalledFile.path)
    IN OfKinds(errors, ExtensionKinds) =
         IF ~ext.some THEN << <<"NoExtension", CalledFile.path>> >>
         ELSE IF ext.val \in AcceptableSet(CalledFrom) THEN <<>>
         ELSE << <<"InvalidExtension", AcceptableJoined(CalledFrom), ext.val>> >>

C7_Witness ==
  /\ Returns("FileConfig::validate")
  /\ CalledFrom = "JpNiedKnet"
  /\ CalledFile.path = <<"a", ".", "n", "s", ".", "t", "x", "t">>
  /\ Contains(errors, <<"InvalidExtension",
                        <<"n", "s", ",", " ", "e", "w", ",", " ", "u", "d">>, <<"t", "x", "t">> >>)

C7_WitnessUpperCase ==
  /\ Returns("FileConfig::validate")
  /\ CalledFrom = "NzGeonetV1a"
  /\ CalledFile.path = <<"a", ".", "V", "1", "A">>
  /\ OfKinds(errors, ExtensionKinds) = <<>>

\* C8: the path check of a file yields PathDoesNotExist(path) iff the path
\* does not exist, PathIsNotFile(path) iff it exists and is not a regular
\* file, nothing iff it is an existing regular file, never both violations;
\* it runs whatever the extension check found, so a file with a wrong
\* extension and a missing path yields both violations.
C8_PathCheck ==
  Returns("FileConfig::validate") =>
    /\ OfKinds(errors, PathKinds) =
         CASE fsys[CalledFile.path] = "absent" -> << <<"PathDoesNotExist", CalledFile.path>> >>
           [] fsys[CalledFile.path] = "dir" -> << <<"PathIsNotFile", CalledFile.path>> >>
           [] fsys[CalledFile.path] = "file" -> <<>>
    /\ Len(errors) = Len(OfKinds(errors, ExtensionKinds)) + Len(OfKinds(errors, PathKinds))

C8_Witness ==
  /\ Returns("FileConfig::validate")
  /\ CalledFrom = "UsScsnV2"
  /\ errors = << <<"InvalidExtension", <<"v", "2">>, <<"t", "x", "t">> >>,
                 <<"PathDoesNotExist", <<"a", ".", "t", "x", "t">> >> >>

\* The entry a reference of the result points to.
Entry(ref) == conversions[ref.conv].groups[ref.idx]

\* C9: group_by_key returns the logical recordings of a job in the order of
\* the first appearance of each grouping key in the job's entry list, so
\* that every run over an unchanged configuration yields the same order.
C9_FirstAppearanceOrder ==
  Returns("Config::group_by_key") =>
    \A j, k \in 1..Len(result) :
      (j < k /\ result[j][1].conv = result[k][1].conv) => result[j][1].idx < result[k][1].idx

\* C10: each entry whose grouping key is absent forms its own singleton
\* logical recording; no output group holds two keyless entries.
C10_KeylessEntriesAreSingletons ==
  Returns("Config::group_by_key") =>
    \A j \in 1..Len(result) :
      (\E i \in 1..Len(result[j]) : Entry(result[j][i]).g_key = None) => Len(result[j]) = 1

\* The places <<j, i>> of the result that hold the entry idx of conversion c.
PlacesOf(c, idx) ==
  {<<j, i>> \in (1..Len(result)) \X (1..MaxEntries + 1) :
     i <= Len(result[j]) /\ result[j][i] = Ref(c, idx)}

\* C11: grouping is key-scoped to the job: all entries of one job that carry
\* the same non-absent grouping key end up in one single logical recording,
\* wherever they stand in the job's entry list, and entries with different
\* keys never share a recording.
C11_KeyScopedToJob ==
  Returns("Config::group_by_key") =>
    /\ \A c \in 1..Len(conversions) : \A a, b \in 1..Len(conversions[c].groups) :
         /\ PlacesOf(c, a) # {}
         /\ (conversions[c].groups[a].g_key.some
               /\ conversions[c].groups[a].g_key = conversions[c].groups[b].g_key)
            => \A p \in PlacesOf(c, a), q \in PlacesOf(c, b) : p[1] = q[1]
    /\ \A j \in 1..Len(result) : \A a, b \in 1..Len(result[j]) :
         Entry(result[j][a]).g_key = Entry(result[j][b]).g_key

C11_Witness ==
  /\ Returns("Config::group_by_key")
  /\ Len(conversions) = 1
  /\ [i \in 1..Len(conversions[1].groups) |-> conversions[1].groups[i].g_key]
       = <<Some(5), Some(1), Some(5)>>
  /\ result = << <<Ref(1, 2)>>, <<Ref(1, 1), Ref(1, 3)>> >>

\* C12: validate and extract never panic: Config.validate returns Ok or a
\* list of violations, and for every source format create_extractor followed
\* by extract returns extracted data or a structured error, never an abort.
C12_NeverPanics == pc # "panicked"

\* C13: validation is a gate.  In every run of the driver, grouping is reached
\* only after the configuration was validated: a run that has executed
\* Config::group_by_key has executed Config::validate before it.
C13_ValidationIsGate ==
  \A i \in 1..Len(ran) :
    ran[i] = "Config::group_by_key" =>
      \E j \in 1..(i - 1) : ran[j] = "Config::validate"

\* Failure categories and their codes in error.rs: AppError::exit_code
\* delegates to CliErr, AnalysisConfigErr and AnalysisErr.
Categories == {"Cli::Validation", "AnalysisConfig::Validation", "AnalysisConfig::Io",
               "AnalysisConfig::Parse", "Analysis::Extraction"}

AppError_exit_code(category) ==
  CASE category = "Cli::Validation" -> 2
    [] category = "AnalysisConfig::Validation" -> 3
    [] category = "AnalysisConfig::Parse" -> 5
    [] category = "AnalysisConfig::Io" -> 4
    [] category = "Analysis::Extraction" -> 6

\* The failure category of each stage of the driver.
CategoryOf(stage) ==
  CASE stage = "Args::validate" -> "Cli::Validation"
    [] stage = "read_config_from_input_file" -> "AnalysisConfig::Io"
    [] stage = "toml::de::from_str" -> "AnalysisConfig::Parse"

DriverStages == {"Args::validate", "read_config_from_input_file", "toml::de::from_str"}

\* The stage a run of the driver failed in: the one its last step belongs to.
FailedStage ==
  IF ran[Len(ran)] \in {"validate_input_file_path", "validate_output_dir_path"}
  THEN "Args::validate" ELSE ran[Len(ran)]

\* C14: exit codes are distinct per failure category.  The exit_code functions
\* give every category its own non-zero code, and a run of the driver that
\* fails in one category terminates with a non-zero code that the driver uses
\* for no other category.
C14_ExitCodesDistinct ==
  /\ \A k \in Categories : AppError_exit_code(k) # 0
  /\ \A k1, k2 \in Categories : k1 # k2 => AppError_exit_code(k1) # AppError_exit_code(k2)
  /\ pc = "exited" =>
       /\ exit_code.val # 0
       /\ \A stage \in DriverStages :
            CategoryOf(stage) # CategoryOf(FailedStage) =>
              CustomErrors_exit_code(CustomErrors_from(stage)) # exit_code.val

\* C15: diagnostics are deterministic.  A second run of Config::validate over
\* the same configuration and the same filesystem returns the violation list
\* of the first run: the same violations, payloads and order.
C15_Deterministic == pc = "redone" => again.val = errors

\* A violation about a file carries that file's path as one of its fields.
CarriesPath(e, path) ==
  IF Kind(e) = "InvalidExtension" THEN e[2] = path \/ e[3] = path ELSE e[2] = path

\* A violation about a group carries the job name and the group's index.
CarriesGroup(e, name, id) ==
  IF Kind(e) = "RequiredAccAxis" THEN e[2] = name /\ e[3] = id
  ELSE e[3] = name /\ e[4] = id

\* C16: every violation is tagged with enough context to locate the offending
\* input: each violation of a file's validation (extension or path) carries
\* the path of that file, and each axis violation of a group's validation
\* carries the job name and the group's index.
C16_ViolationsCarryContext ==
  /\ Returns("FileConfig::validate") =>
       \A i \in 1..Len(errors) :
         Kind(errors[i]) \in ExtensionKinds \cup PathKinds /\ CarriesPath(errors[i], CalledFile.path)
  /\ Returns("GroupConfig::validate") =>
       \A i \in 1..Len(errors) :
         Kind(errors[i]) \in AxisKinds =>
           CarriesGroup(errors[i], config.conversion[call.c].name, call.g)

\* C17: validating the output directory on a path that does not exist creates
\* the directory and succeeds, so after the call the path is never absent,
\* and the call fails only when the path exists and is not a directory.
C17_OutputDirCreated ==
  Returns("Args::validate_output_dir_path") =>
    /\ fsys[args.output_dir_path] # "absent"
    /\ errors # <<>> <=> fsys[args.output_dir_path] = "file"

\* The input paths whose extension is toml in any letter case, and those
\* without an extension.
TomlPaths == { <<"c", ".", "t", "o", "m", "l">>, <<"c", ".", "T", "O", "M", "L">> }

NoExtensionPaths == { <<"c">>, <<".", "t", "o", "m", "l">> }

\* The messages expected for an input path, by their first words.
ExpectedInputMessages(path) ==
  (IF path \in NoExtensionPaths THEN <<"File has no extension">>
   ELSE IF path \notin TomlPaths THEN <<"Invalid file extension">>
   ELSE <<>>)
  \o (CASE fsys[path] = "absent" -> <<"Path does not exist">>
        [] fsys[path] = "dir" -> <<"Path is not a file">>
        [] fsys[path] = "file" -> <<>>)

\* C18: Args::validate_input_file_path returns Ok iff the extension of the
\* path is toml in any letter case and the path is a regular file; otherwise
\* it returns one error listing every failing check, the extension failure
\* (no extension, or not toml) before the path failure (absent, or not a
\* file).
C18_InputFilePathCheck ==
  Returns("Args::validate_input_file_path") =>
    LET expected == ExpectedInputMessages(args.input_file_path)
    IN /\ errors = <<>> <=> (args.input_file_path \in TomlPaths /\ fsys[args.input_file_path] = "file")
       /\ errors = <<>> <=> expected = <<>>
       /\ errors # <<>> =>
            /\ Len(errors) = 1
            /\ errors[1][1] = "Multiple validation errors"
            /\ [i \in 1..Len(errors[1][2]) |-> errors[1][2][i][1]] = expected

C18_Witness ==
  /\ Returns("Args::validate_input_file_path")
  /\ args.input_file_path = <<"c", ".", "t", "x", "t">>
  /\ fsys[args.input_file_path] = "absent"
  /\ errors = << <<"Multiple validation errors",
                   << <<"Invalid file extension", <<"t", "x", "t">>, <<"t", "o", "m", "l">> >>,
                      <<"Path does not exist", <<"c", ".", "t", "x", "t">> >> >> >> >>


\* The steps of the driver in their order, whether the k-th of the first four
\* succeeds on the inputs of the run, and the exit code of its failure.
StageOrder ==
  <<"validate_input_file_path", "validate_output_dir_path",
    "read_config_from_input_file", "toml::de::from_str", "Config::group_by_key">>

Succeeds(k) ==
  CASE k = 1 -> args.input_file_path \in TomlPaths /\ fsys[args.input_file_path] = "file"
    [] k = 2 -> fsys[args.output_dir_path] = "dir"
    [] k = 3 -> readable
    [] k = 4 -> content.ok

StageExitCode(k) == IF k \in {1, 2} THEN 2 ELSE 3

\* C19: the driver runs argument validation (input file, then output
\* directory), the read, the parse and the grouping in this order, each step
\* only after all earlier ones succeeded; a failing step is the last one of
\* its run, its errors are the only ones logged and the process ends with its
\* exit code; the grouped result is printed only after every earlier step
\* succeeded.
C19_StagesInOrder ==
  /\ Len(ran) <= Len(StageOrder)
  /\ ran = SubSeq(StageOrder, 1, Len(ran))
  /\ \A k \in 2..Len(ran) : Succeeds(k - 1)
  /\ pc = "exited" =>
       /\ ran # <<>>
       /\ Len(ran) < Len(StageOrder)
       /\ ~Succeeds(Len(ran))
       /\ Len(logged) = 1
       /\ logged[1].errors # <<>>
       /\ exit_code = Some(StageExitCode(Len(ran)))
       /\ ~printed
  /\ pc # "exited" => logged = <<>>
  /\ printed <=> pc = "finished"
  /\ printed => ran = StageOrder /\ exit_code = Some(0) /\ \A k \in 1..4 : Succeeds(k)
  /\ pc \notin {"exited", "finished"} => exit_code = None

C19_Witness ==
  /\ pc = "exited"
  /\ ran = SubSeq(StageOrder, 1, 4)
  /\ ~content.ok
  /\ exit_code = Some(3)
  /\ Len(logged) = 1
  /\ ~printed

\* The number of files of group g of job c that declare no axis.
UndeclaredFiles(c, g) ==
  Cardinality({f \in 1..Len(FilesOf(c, g)) : ~FilesOf(c, g)[f].acc_axis.some})

\* C20: for a multi-axis source format, each file of a group that declares no
\* axis yields exactly one RequiredAccAxis violation carrying the job name and
\* the position of the group in the job counted from 1; files that declare an
\* axis and groups of single-file formats yield none.
C20_RequiredAxisReported ==
  Returns("Config::validate") =>
    /\ \A c \in Jobs : \A g \in GroupsOf(c) :
         config.conversion[c].from \in MultiAxisFormats =>
           Count(errors, <<"RequiredAccAxis", config.conversion[c].name, g>>)
             = Sum([d \in Jobs |->
                      IF /\ config.conversion[d].from \in MultiAxisFormats
                         /\ config.conversion[d].name = config.conversion[c].name
                         /\ g \in GroupsOf(d)
                      THEN UndeclaredFiles(d, g) ELSE 0])
    /\ Len(OfKinds(errors, {"RequiredAccAxis"}))
         = Sum([c \in Jobs |-> Sum([g \in GroupsOf(c) |->
                  IF config.conversion[c].from \in MultiAxisFormats
                  THEN UndeclaredFiles(c, g) ELSE 0])])

C20_Witness ==
  /\ Returns("Config::validate")
  /\ config.conversion[1].from = "TkAfadAsc"
  /\ Len(config.conversion[1].group) = 2
  /\ [f \in 1..Len(FilesOf(1, 2)) |-> FilesOf(1, 2)[f].acc_axis] = <<None, Some("Ns"), None>>
  /\ Count(errors, <<"RequiredAccAxis", "main", 2>>) = 2
  /\ Len(OfKinds(errors, {"RequiredAccAxis"})) = 2

\* The violations of group g of job c, as the validation of the group
\* returns them.
GroupViolations(c, g) ==
  GroupConfig_validate(config.conversion[c].group[g], config.conversion[c].from,
                       assign_ext_based_on_from(config.conversion[c].from),
                       config.conversion[c].name, g)

JobViolations(c) == Flatten([g \in GroupsOf(c) |-> GroupViolations(c, g)])

\* C21: the list Config::validate returns is merged in position order: the
\* violations of the jobs follow each other in the order of the jobs, inside
\* a job those of the groups in the order of the groups, and the
\* duplicate-name violation, when there is one, is the last element.
C21_MergedInPositionOrder ==
  /\ Returns("Config::validate") =>
       LET found == OfKinds(errors, {"DuplicateNames"})
       IN /\ Len(found) <= 1
          /\ errors = Flatten([c \in Jobs |-> JobViolations(c)]) \o found
          /\ \A i \in 1..Len(errors) : Kind(errors[i]) = "DuplicateNames" => i = Len(errors)
  /\ Returns("ConversionConfig::validate") => errors = JobViolations(call.c)

C21_Witness ==
  /\ Returns("Config::validate")
  /\ Len(config.conversion) = 2
  /\ Len(config.conversion[1].group) = 2
  /\ errors = << <<"InvalidExtension", <<"v", "2">>, <<"t", "x", "t">> >>,
                 <<"PathDoesNotExist", BadPath>>,
                 <<"MismatchedAccAxis", "us_scsn_v2", "main", 2>>,
                 <<"MismatchedAccAxis", "us_scsn_v2", "main", 1>>,
                 <<"DuplicateNames", <<"main", "\n">> >> >>

\* C22: group_by_key partitions the entries: each entry of each conversion
\* is at exactly one place of the output, no output group is empty, the
\* output holds as many entries as the configuration, the entries of one
\* output group have the same g_key, and inside an output group the entries
\* keep their relative order from the entry list of their conversion.
C22_Partition ==
  Returns("Config::group_by_key") =>
    /\ \A c \in 1..Len(conversions) : \A idx \in 1..Len(conversions[c].groups) :
         Cardinality(PlacesOf(c, idx)) = 1
    /\ \A j \in 1..Len(result) : result[j] # <<>>
    /\ Sum([j \in 1..Len(result) |-> Len(result[j])])
         = Sum([c \in 1..Len(conversions) |-> Len(conversions[c].groups)])
    /\ \A j \in 1..Len(result) : \A a, b \in 1..Len(result[j]) :
         /\ Entry(result[j][a]).g_key = Entry(result[j][b]).g_key
         /\ (a < b /\ result[j][a].conv = result[j][b].conv) => result[j][a].idx < result[j][b].idx

C22_Witness ==
  /\ Returns("Config::group_by_key")
  /\ Len(conversions) = 1
  /\ [i \in 1..Len(conversions[1].groups) |-> conversions[1].groups[i].g_key]
       = <<Some(5), None, Some(5), None>>
  /\ result = << <<Ref(1, 1), Ref(1, 3)>>, <<Ref(1, 2), Ref(1, 4)>> >>

\* C23: group_by_key never merges across conversions: the entries of one
\* output group belong to one conversion, also when entries of different
\* conversions carry the same g_key, and the groups of a conversion come
\* before those of every later conversion.
C23_NoMergeAcrossConversions ==
  Returns("Config::group_by_key") =>
    /\ \A j \in 1..Len(result) : \A a, b \in 1..Len(result[j]) :
         result[j][a].conv = result[j][b].conv
    /\ \A j, k \in 1..Len(result) : \A a \in 1..Len(result[j]), b \in 1..Len(result[k]) :
         result[j][a].conv < result[k][b].conv => j < k

C23_Witness ==
  /\ Returns("Config::group_by_key")
  /\ Len(conversions) = 2
  /\ \A c \in 1..2 : \A i \in 1..Len(conversions[c].groups) :
       conversions[c].groups[i].g_key = Some(5)
  /\ result = << <<Ref(1, 1), Ref(1, 2)>>, <<Ref(2, 1)>> >>

=============================================================================
